---- MODULE Spec2Model ----
(***************************************************************************)
(* State-machine model of contracts/DreamJournal.sol: the encrypted dream  *)
(* journal.  Every external function of the contract is one action; a      *)
(* transaction that hits a failing require (or a reverting library call)   *)
(* leaves the storage as it was, as the EVM does.                          *)
(***************************************************************************)
EXTENDS Integers, Sequences, FiniteSets, TLC

(***************************************************************************)
(* Program constants.                                                      *)
(***************************************************************************)
\* "1 hours" in the rate-limit require
ONE_HOUR == 3600
\* require(encContent.length <= 10000, ...)
MAX_CONTENT == 10000
\* require(bytes(title).length <= 200, ...)
MAX_TITLE == 200

\* limits of the form's validation and the delay of the guard's reset timer
UI_MAX_TITLE == 200
UI_MAX_CONTENT == 10000
RESET_DELAY == 5000

(***************************************************************************)
(* Bounds of the model.                                                    *)
(***************************************************************************)
\* createDream succeeds only while fewer than MaxDreams dreams are stored
MaxDreams == 2
\* ids and indexes the callers pass range over 0..MaxArg
MaxArg == 2
\* the page calls createDream only while fewer than MaxCalls calls were made
MaxCalls == 2
\* the analytics functions emit only while fewer than MaxLogs of their events
\* are in the log
MaxLogs == 1

(***************************************************************************)
(* Inputs.                                                                 *)
(***************************************************************************)
\* msg.sender
Users == {"alice", "bob"}
\* address(this)
This == "DreamJournal"

\* the sequence of n copies of x
Repeat(x, n) == [i \in 1..n |-> x] \o <<>>

\* titles: "a" and a title of exactly 200 bytes; "" and a title of 201 bytes
ValidTitles == {<<"a">>, Repeat("x", MAX_TITLE)}
InvalidTitles == {<<>>, Repeat("x", MAX_TITLE + 1)}

\* externalEuint8 handles produced by the client-side encryption
ExtHandles == {1, 2}
\* encContent: one unit and two units; no unit and 10001 units
ValidContents == {<<1>>, <<1, 2>>}
InvalidContents == {<<>>, Repeat(1, MAX_CONTENT + 1)}

\* inputProof: the set of external handles the proof attests for the sender
\* ({1} is rejected at the second unit of <<1, 2>>, after the first was imported)
Proofs == {{1}, {1, 2}}

\* the arguments of one createDream call
Submission(title, encContent, inputProof) ==
    [title |-> title, encContent |-> encContent, inputProof |-> inputProof]

\* every well-formed title and content with every proof; every malformed title
\* with a well-formed and with each malformed content; every malformed content
\* with a well-formed title
Submissions ==
    {Submission(t, c, p) : t \in ValidTitles, c \in ValidContents, p \in Proofs}
    \cup {Submission(t, c, {1, 2}) :
            t \in InvalidTitles, c \in {<<1>>} \cup InvalidContents}
    \cup {Submission(<<"a">>, c, {1, 2}) : c \in InvalidContents}

\* the submissions of the specification that exercises the lookups: one title,
\* contents of one and two units, the two-unit ones in both orders
CallSubmissions ==
    {Submission(<<"a">>, c, p) : c \in {<<1>>, <<1, 2>>, <<2, 1>>}, p \in Proofs}

\* titles with leading and trailing blanks, and blank ones, sent straight to
\* the contract
BlankTitles == {<<" ">>, <<" ", " ">>}
PaddedTitles == {<<" ", "a">>, <<"a", " ">>}
TitleSubmissions ==
    {Submission(t, <<1>>, {1}) : t \in BlankTitles \cup PaddedTitles \cup {<<>>}}

\* String.prototype.trim of the form's validation: blanks at both ends go
IsBlank(c) == c \in {" ", "\t", "\n"}
RECURSIVE TrimStart(_)
TrimStart(title) ==
    IF title = <<>> \/ ~IsBlank(Head(title)) THEN title
    ELSE TrimStart(Tail(title))
RECURSIVE TrimEnd(_)
TrimEnd(title) ==
    IF title = <<>> \/ ~IsBlank(title[Len(title)]) THEN title
    ELSE TrimEnd(SubSeq(title, 1, Len(title) - 1))
Trim(title) == TrimEnd(TrimStart(title))

\* the submission of the specification that exercises the analytics
\* functions
RecordSubmissions == {Submission(<<"a">>, <<1, 2>>, {1, 2})}

\* the submissions of the specification of retries: two acceptable ones, one
\* the verifier rejects after its first unit, one with an empty title
RetrySubmissions ==
    {Submission(<<"a">>, <<1>>, {1}), Submission(<<"a">>, <<1, 2>>, {1, 2}),
     Submission(<<"a">>, <<1, 2>>, {1}), Submission(<<>>, <<1>>, {1})}

\* what the form holds when the submit handler runs, and the milliseconds
\* that pass between two events of the page
FormTitles == {<<>>, <<" ">>, <<" ", "a", " ">>, Repeat("x", UI_MAX_TITLE),
               Repeat("x", UI_MAX_TITLE + 1)}
FormContents == {<<>>, <<"\n">>, <<"d">>, <<" ", "d", "\n">>,
                 Repeat("y", UI_MAX_CONTENT + 1)}

\* form values at the limits of the validation: a title of 200 characters
\* between two blanks, one of 201, contents of 10000 and of 10001
BoundaryTitles == {<<>>, <<" ">> \o Repeat("x", UI_MAX_TITLE) \o <<" ">>,
                   Repeat("x", UI_MAX_TITLE + 1)}
BoundaryContents == {<<"\n">>, <<" ", "d", "\n">>,
                     Repeat("y", UI_MAX_CONTENT),
                     Repeat("y", UI_MAX_CONTENT + 1)}
Delays == {RESET_DELAY - 1, RESET_DELAY}

\* block.timestamp of the block a transaction is mined in
Times == {0, 1, ONE_HOUR, ONE_HOUR + 1}

Ids == 0..MaxArg
Indexes == 0..MaxArg

VARIABLES
    _dreams,            \* Dream[] private _dreams (index i+1 holds id i)
    _dreamsOf,          \* mapping(address => uint256[])
    _contentHashes,     \* mapping(bytes32 => bool), as the set of keys mapped to true
    _lastCreationTime,  \* mapping(address => uint64)
    acl,                \* FHE access list: handle -> identities allowed on it
    logs,               \* events emitted so far, in order
    blockTimestamp,     \* block.timestamp
    result,             \* outcome of the last call: [op, err, value]
    ui,                 \* the page: its submit guard, timers and calls made
    form                \* the page: the title and content the form holds

vars == <<_dreams, _dreamsOf, _contentHashes, _lastCreationTime, acl, logs,
          blockTimestamp, result, ui, form>>

\* the contract's own storage plus what it wrote to the ACL and the log
Storage == [dreams |-> _dreams, dreamsOf |-> _dreamsOf,
            contentHashes |-> _contentHashes,
            lastCreationTime |-> _lastCreationTime, acl |-> acl, logs |-> logs]

NoValue == "none"
Ok(op, v) == [op |-> op, err |-> "", value |-> v]
Revert(op, msg) == [op |-> op, err |-> msg, value |-> NoValue]

\* what a failed require(cond, msg) hands back to the caller: the ABI encoding
\* of Error(string) with the reason, and nothing else
RevertDataBare(msg) == <<"Error(string)">>
RevertData(msg) == <<"Error(string)", msg>>

(***************************************************************************)
(* Error kinds of the specification, from the revert reasons of the code.  *)
(***************************************************************************)
ErrKind(msg) ==
    CASE msg = "" -> "Success"
      [] msg \in {"Empty content", "Content too large",
                  "Empty title", "Title too long"} -> "ValidationError"
      [] msg = "Rate limit: one dream per hour allowed" -> "RateLimited"
      [] msg = "Duplicate dream content detected" -> "DuplicateContent"
      [] msg = "Invalid input proof" -> "ProofInvalid"
      [] msg = "Dream does not exist" -> "NotFound"
      [] msg = "Access denied: not the owner" -> "AccessDenied"
      [] msg = "Only owner can record decryption" -> "AccessDenied"
      [] msg = "Index out of bounds" -> "IndexOutOfRange"
      [] OTHER -> "Panic"

(***************************************************************************)
(* createDream                                                             *)
(***************************************************************************)
\* variant: empty content is not rejected
ValidationErrNoEmptyContent(title, encContent) ==
    IF ~(Len(encContent) <= MAX_CONTENT) THEN "Content too large"
    ELSE IF ~(Len(title) > 0) THEN "Empty title"
    ELSE IF ~(Len(title) <= MAX_TITLE) THEN "Title too long"
    ELSE ""

\* variant: the upper limit of the title is not checked
ValidationErrNoTitleMax(title, encContent) ==
    IF ~(Len(encContent) > 0) THEN "Empty content"
    ELSE IF ~(Len(encContent) <= MAX_CONTENT) THEN "Content too large"
    ELSE IF ~(Len(title) > 0) THEN "Empty title"
    ELSE ""

\* the four input requires, in source order; "" when all pass
ValidationErr(title, encContent) ==
    IF ~(Len(encContent) > 0) THEN "Empty content"
    ELSE IF ~(Len(encContent) <= MAX_CONTENT) THEN "Content too large"
    ELSE IF ~(Len(title) > 0) THEN "Empty title"
    ELSE IF ~(Len(title) <= MAX_TITLE) THEN "Title too long"
    ELSE ""

\* variant: the window ends one second late
RateLimitOkStrict(last, now) ==
    last = 0 \/ now > last + ONE_HOUR

\* the condition of the rate-limit require; last = _lastCreationTime[msg.sender]
\* (timestamps of the model stay far below 2^64, so uint64 arithmetic is exact)
RateLimitOk(last, now) ==
    last = 0 \/ now >= last + ONE_HOUR

\* keccak256(abi.encodePacked(msg.sender, encContent.length, title)): the packed
\* preimage is 20 bytes of address, 32 bytes of length, then the title bytes, so
\* distinct triples have distinct preimages; keccak256 is taken as injective
\* variant: the content length is left out of the hash
contentHashOfNoLength(sender, length, title) == <<"keccak256", sender, title>>
\* variant: the sender is left out of the hash
contentHashOfAnySender(sender, length, title) == <<"keccak256", length, title>>
contentHashOf(sender, length, title) ==
    <<"keccak256", sender, length, title>>

\* FHE.fromExternal: the verifier accepts a handle the proof attests and
\* returns the euint8 for it; it reverts on any other handle.  A proof attests
\* handles for its submitter only, so the euint8 names the submitter's
\* ciphertext: two users never import the same euint8.
fromExternalAccepts(ext, inputProof) == ext \in inputProof
fromExternal(ext, sender) == <<"euint8", sender, ext>>
Handles == {fromExternal(e, u) : e \in ExtHandles, u \in Users}

\* FHE.allow(b, who) / FHE.allowThis(b)
allow(a, b, who) == [a EXCEPT ![b] = @ \cup {who}]
\* variant: the contract does not allow itself on the unit
allowThisSkipped(a, b) == a
allowThis(a, b) == allow(a, b, This)

\* variant: every imported unit is stored at position 0
RECURSIVE ImportLoopFront(_, _, _, _, _, _)
ImportLoopFront(i, encContent, inputProof, sender, content, a) ==
    IF ~(i <= Len(encContent))
    THEN [ok |-> TRUE, encContent |-> content, acl |-> a]
    ELSE IF ~fromExternalAccepts(encContent[i], inputProof)
    THEN [ok |-> FALSE, encContent |-> content, acl |-> a]
    ELSE LET b == fromExternal(encContent[i], sender)
         IN  ImportLoopFront(i + 1, encContent, inputProof, sender,
                             <<b>> \o content, allow(allowThis(a, b), b, sender))

\* the import loop, from position i (1-based here, i-1 in the source) on:
\* content is dream.encContent as filled so far, a is the access list
RECURSIVE ImportLoop(_, _, _, _, _, _)
ImportLoop(i, encContent, inputProof, sender, content, a) ==
    IF ~(i <= Len(encContent))
    THEN [ok |-> TRUE, encContent |-> content, acl |-> a]
    ELSE IF ~fromExternalAccepts(encContent[i], inputProof)
    THEN [ok |-> FALSE, encContent |-> content, acl |-> a]
    ELSE LET b == fromExternal(encContent[i], sender)
         IN  ImportLoop(i + 1, encContent, inputProof, sender,
                        Append(content, b), allow(allowThis(a, b), b, sender))

\* variant: the event is built before createdAt is known
DreamCreatedUnstamped(id, owner, title, createdAt) ==
    [event |-> "DreamCreated", id |-> id, owner |-> owner, title |-> title,
     createdAt |-> 0]

DreamCreated(id, owner, title, createdAt) ==
    [event |-> "DreamCreated", id |-> id, owner |-> owner, title |-> title,
     createdAt |-> createdAt]

\* variant: marking a hash forgets the hashes marked before
MarkHashOnly(hashes, contentHash) == {contentHash}

\* variant: the hash is never recorded
MarkHashNoop(hashes, contentHash) == hashes

\* _contentHashes[contentHash] = true
MarkHash(hashes, contentHash) == hashes \cup {contentHash}

\* variant: the id is the length after the push
PushedIdLength(dreams) == Len(dreams)

\* id = _dreams.length - 1, taken after the push
PushedId(dreams) == Len(dreams) - 1

\* variant: the id is put in front of the owner's list
IndexPushFront(dreamsOf, sender, id) ==
    [dreamsOf EXCEPT ![sender] = <<id>> \o @]

\* variant: the owner's list receives the owner's own count
IndexPushCount(dreamsOf, sender, id) ==
    [dreamsOf EXCEPT ![sender] = Append(@, Len(@))]

\* _dreamsOf[msg.sender].push(id)
IndexPush(dreamsOf, sender, id) == [dreamsOf EXCEPT ![sender] = Append(@, id)]

\* The body of createDream run on storage st at block time now.  The result
\* holds the revert reason ("" on success), the returned id and the storage
\* as written at the point where execution stopped.
\* variant: the timestamp is not written
StampCreationSkipped(lastCreationTime, sender, now) == lastCreationTime
\* _lastCreationTime[msg.sender] = uint64(block.timestamp)
StampCreation(lastCreationTime, sender, now) ==
    [lastCreationTime EXCEPT ![sender] = now]

CreateDreamExec(st, sender, now, title, encContent, inputProof) ==
    IF ValidationErr(title, encContent) # ""
    THEN [err |-> ValidationErr(title, encContent), id |-> NoValue, st |-> st]
    ELSE IF ~RateLimitOk(st.lastCreationTime[sender], now)
    THEN [err |-> "Rate limit: one dream per hour allowed", id |-> NoValue, st |-> st]
    ELSE
    LET contentHash == contentHashOf(sender, Len(encContent), title) IN
    IF contentHash \in st.contentHashes
    THEN [err |-> "Duplicate dream content detected", id |-> NoValue, st |-> st]
    ELSE
    LET st1 == [st EXCEPT !.contentHashes = MarkHash(@, contentHash)]
        imp == ImportLoop(1, encContent, inputProof, sender, <<>>, st1.acl)
    IN
    IF ~imp.ok
    THEN [err |-> "Invalid input proof", id |-> NoValue,
          st |-> [st1 EXCEPT !.acl = imp.acl]]
    ELSE
    LET dream == [owner |-> sender, createdAt |-> now,
                  titleLength |-> Len(title), title |-> title,
                  encContent |-> imp.encContent]
        dreams == Append(st1.dreams, dream)
        id == PushedId(dreams)
        st2 == [st1 EXCEPT !.acl = imp.acl,
                           !.dreams = dreams,
                           !.dreamsOf = IndexPush(@, sender, id),
                           !.lastCreationTime = StampCreation(@, sender, now),
                           !.logs = Append(@, DreamCreated(id, sender, title,
                                                           dream.createdAt))]
    IN [err |-> "", id |-> id, st |-> st2]

\* variant: the writes made before a revert stay
TxCommitKeep(pre, exec) == exec.st

\* EVM transaction semantics: a revert undoes every write of the call
TxCommit(pre, exec) ==
    IF exec.err = "" THEN exec.st ELSE pre

\* outcome of a createDream transaction: [err, id, st] with st the storage after it
CreateDreamTx(st, sender, now, title, encContent, inputProof) ==
    LET exec == CreateDreamExec(st, sender, now, title, encContent, inputProof)
    IN  [err |-> exec.err, id |-> exec.id, st |-> TxCommit(st, exec)]

createDream(sender, title, encContent, inputProof) ==
    \E tx \in {CreateDreamTx(Storage, sender, blockTimestamp, title, encContent,
                              inputProof)} :
        /\ tx.err = "" => Len(_dreams) < MaxDreams
        /\ _dreams' = tx.st.dreams
        /\ _dreamsOf' = tx.st.dreamsOf
        /\ _contentHashes' = tx.st.contentHashes
        /\ _lastCreationTime' = tx.st.lastCreationTime
        /\ acl' = tx.st.acl
        /\ logs' = tx.st.logs
        /\ result' = IF tx.err = "" THEN Ok("createDream", tx.id)
                                    ELSE Revert("createDream", tx.err)
        /\ UNCHANGED <<blockTimestamp, ui, form>>

(***************************************************************************)
(* The view functions: each is a function of the storage, and a call of it *)
(* changes nothing but the outcome the caller sees.                        *)
(***************************************************************************)
\* _dreams[id] of the source: id 0 is the first element
InRange(id) == id < Len(_dreams)
DreamAt(id) == _dreams[id + 1]
\* Solidity's checked array access: Panic(0x32) when id >= _dreams.length
OutOfBounds == "Panic(0x32)"

getDreamCount(user) == Ok("getDreamCount", Len(_dreamsOf[user]))

getDreamIds(user) == Ok("getDreamIds", _dreamsOf[user])

getDreamMeta(id) ==
    IF ~InRange(id) THEN Revert("getDreamMeta", OutOfBounds)
    ELSE IF ~(Len(DreamAt(id).encContent) > 0)
    THEN Revert("getDreamMeta", "Dream does not exist")
    ELSE Ok("getDreamMeta",
            <<DreamAt(id).owner, DreamAt(id).title, DreamAt(id).createdAt>>)

dreamExists(id) ==
    IF ~InRange(id) THEN Revert("dreamExists", OutOfBounds)
    ELSE Ok("dreamExists", Len(DreamAt(id).encContent) > 0)

getDreamContentLength(id) ==
    IF ~InRange(id) THEN Revert("getDreamContentLength", OutOfBounds)
    ELSE IF ~(Len(DreamAt(id).encContent) > 0)
    THEN Revert("getDreamContentLength", "Dream does not exist")
    ELSE Ok("getDreamContentLength", Len(DreamAt(id).encContent))

getTotalDreamCount == Ok("getTotalDreamCount", Len(_dreams))

\* variant: the index is checked before the caller
getDreamContentByteIndexFirst(sender, id, index) ==
    IF ~InRange(id) THEN Revert("getDreamContentByte", OutOfBounds)
    ELSE IF ~(Len(DreamAt(id).encContent) > 0)
    THEN Revert("getDreamContentByte", "Dream does not exist")
    ELSE IF ~(index < Len(DreamAt(id).encContent))
    THEN Revert("getDreamContentByte", "Index out of bounds")
    ELSE IF ~(DreamAt(id).owner = sender)
    THEN Revert("getDreamContentByte", "Access denied: not the owner")
    ELSE Ok("getDreamContentByte", DreamAt(id).encContent[index + 1])

getDreamContentByte(sender, id, index) ==
    IF ~InRange(id) THEN Revert("getDreamContentByte", OutOfBounds)
    ELSE IF ~(Len(DreamAt(id).encContent) > 0)
    THEN Revert("getDreamContentByte", "Dream does not exist")
    ELSE IF ~(DreamAt(id).owner = sender)
    THEN Revert("getDreamContentByte", "Access denied: not the owner")
    ELSE IF ~(index >= 0)
    THEN Revert("getDreamContentByte", "Index cannot be negative")
    ELSE IF ~(index < Len(DreamAt(id).encContent))
    THEN Revert("getDreamContentByte", "Index out of bounds")
    ELSE Ok("getDreamContentByte", DreamAt(id).encContent[index + 1])

\* a call of a view function: the caller sees ret, the chain state stays
View(ret) ==
    /\ result' = ret
    /\ UNCHANGED <<_dreams, _dreamsOf, _contentHashes, _lastCreationTime, acl,
                   logs, blockTimestamp, ui, form>>

CallGetDreamCount(user) == View(getDreamCount(user))
CallGetDreamIds(user) == View(getDreamIds(user))
CallGetDreamMeta(id) == View(getDreamMeta(id))
CallDreamExists(id) == View(dreamExists(id))
CallGetDreamContentLength(id) == View(getDreamContentLength(id))
CallGetTotalDreamCount == View(getTotalDreamCount)
CallGetDreamContentByte(sender, id, index) ==
    View(getDreamContentByte(sender, id, index))

(***************************************************************************)
(* The analytics functions: they emit an event and write no storage.       *)
(***************************************************************************)
\* the events of lines 28-30; DreamAccessed is declared and never emitted
DreamAccessed(id, accessor) ==
    [event |-> "DreamAccessed", id |-> id, accessor |-> accessor]
DreamContentLength(id, length) ==
    [event |-> "DreamContentLength", id |-> id, length |-> length]
DreamDecrypted(id, decryptor, timestamp) ==
    [event |-> "DreamDecrypted", id |-> id, decryptor |-> decryptor,
     timestamp |-> timestamp]

\* the events of the analytics functions in the log, in order
AnalyticsEvents == SelectSeq(logs, LAMBDA e : e.event # "DreamCreated")

\* recordContentAccess(id): a failure of the internal call of dreamExists or
\* of getDreamContentLength is the failure of the transaction
recordContentAccessTx(sender, id) ==
    IF dreamExists(id).err # ""
    THEN [err |-> dreamExists(id).err, logs |-> logs]
    ELSE IF ~dreamExists(id).value
    THEN [err |-> "Dream does not exist", logs |-> logs]
    ELSE IF getDreamContentLength(id).err # ""
    THEN [err |-> getDreamContentLength(id).err, logs |-> logs]
    ELSE [err |-> "",
          logs |-> Append(logs, DreamContentLength(id,
                                    getDreamContentLength(id).value))]

\* recordDecryption(id)
recordDecryptionTx(sender, id) ==
    IF dreamExists(id).err # ""
    THEN [err |-> dreamExists(id).err, logs |-> logs]
    ELSE IF ~dreamExists(id).value
    THEN [err |-> "Dream does not exist", logs |-> logs]
    ELSE IF ~(DreamAt(id).owner = sender)
    THEN [err |-> "Only owner can record decryption", logs |-> logs]
    ELSE [err |-> "",
          logs |-> Append(logs, DreamDecrypted(id, sender, blockTimestamp))]

\* a transaction of an analytics function
Analytics(op, tx) ==
    /\ tx.err = "" => Len(AnalyticsEvents) < MaxLogs
    /\ logs' = tx.logs
    /\ result' = IF tx.err = "" THEN Ok(op, NoValue) ELSE Revert(op, tx.err)
    /\ UNCHANGED <<_dreams, _dreamsOf, _contentHashes, _lastCreationTime, acl,
                   blockTimestamp, ui, form>>

\* variant: the access is also noted in the caller's id list
recordContentAccessTracked(sender, id) ==
    \E tx \in {recordContentAccessTx(sender, id)} :
        /\ tx.err = "" => Len(AnalyticsEvents) < MaxLogs
        /\ logs' = tx.logs
        /\ result' = IF tx.err = "" THEN Ok("recordContentAccess", NoValue)
                                    ELSE Revert("recordContentAccess", tx.err)
        /\ _dreamsOf' = IF tx.err = "" THEN IndexPush(_dreamsOf, sender, id)
                                       ELSE _dreamsOf
        /\ UNCHANGED <<_dreams, _contentHashes, _lastCreationTime, acl,
                       blockTimestamp, ui, form>>

recordContentAccess(sender, id) ==
    Analytics("recordContentAccess", recordContentAccessTx(sender, id))

recordDecryption(sender, id) ==
    Analytics("recordDecryption", recordDecryptionTx(sender, id))

(***************************************************************************)
(* The page: the submit handler handleCreateDream, its duplicate-call      *)
(* guard handleCreateDreamRef and the timers that reset the guard.         *)
(***************************************************************************)
\* the page as mounted: guard clear, no timer pending, no call made;
\* timers holds the milliseconds left of every pending setTimeout
PageMounted == [ref |-> FALSE, timers |-> <<>>, calls |-> <<>>,
                outcome |-> "mounted"]

\* variant: the guard is set before the input is validated
handleCreateDreamGuardFirst(u, title, content, isCreating, fhevmInstance) ==
    IF u.ref THEN [u EXCEPT !.outcome = "ignored: already processing"]
    ELSE IF isCreating THEN [u EXCEPT !.outcome = "ignored: isCreating"]
    ELSE IF Len(Trim(title)) = 0
    THEN [u EXCEPT !.ref = TRUE, !.outcome = "alert: title"]
    ELSE IF Len(Trim(content)) = 0
    THEN [u EXCEPT !.ref = TRUE, !.outcome = "alert: content"]
    ELSE IF Len(Trim(title)) > UI_MAX_TITLE
    THEN [u EXCEPT !.ref = TRUE, !.outcome = "alert: title too long"]
    ELSE IF Len(Trim(content)) > UI_MAX_CONTENT
    THEN [u EXCEPT !.ref = TRUE, !.outcome = "alert: content too long"]
    ELSE IF ~fhevmInstance
    THEN [u EXCEPT !.ref = TRUE, !.outcome = "alert: not ready"]
    ELSE [ref |-> TRUE,
          calls |-> Append(u.calls, <<Trim(title), Trim(content)>>),
          timers |-> Append(u.timers, RESET_DELAY),
          outcome |-> "called"]

\* variant: createDream is handed the form's values as typed
handleCreateDreamUntrimmed(u, title, content, isCreating, fhevmInstance) ==
    IF u.ref THEN [u EXCEPT !.outcome = "ignored: already processing"]
    ELSE IF isCreating THEN [u EXCEPT !.outcome = "ignored: isCreating"]
    ELSE IF Len(Trim(title)) = 0 THEN [u EXCEPT !.outcome = "alert: title"]
    ELSE IF Len(Trim(content)) = 0 THEN [u EXCEPT !.outcome = "alert: content"]
    ELSE IF Len(Trim(title)) > UI_MAX_TITLE
    THEN [u EXCEPT !.outcome = "alert: title too long"]
    ELSE IF Len(Trim(content)) > UI_MAX_CONTENT
    THEN [u EXCEPT !.outcome = "alert: content too long"]
    ELSE IF ~fhevmInstance THEN [u EXCEPT !.outcome = "alert: not ready"]
    ELSE [ref |-> TRUE,
          calls |-> Append(u.calls, <<title, content>>),
          timers |-> Append(u.timers, RESET_DELAY),
          outcome |-> "called"]

\* the body of handleCreateDream, on the form's title and content and the
\* isCreating and fhevmInstance of the render it belongs to
handleCreateDreamRun(u, title, content, isCreating, fhevmInstance) ==
    IF u.ref THEN [u EXCEPT !.outcome = "ignored: already processing"]
    ELSE IF isCreating THEN [u EXCEPT !.outcome = "ignored: isCreating"]
    ELSE IF Len(Trim(title)) = 0 THEN [u EXCEPT !.outcome = "alert: title"]
    ELSE IF Len(Trim(content)) = 0 THEN [u EXCEPT !.outcome = "alert: content"]
    ELSE IF Len(Trim(title)) > UI_MAX_TITLE
    THEN [u EXCEPT !.outcome = "alert: title too long"]
    ELSE IF Len(Trim(content)) > UI_MAX_CONTENT
    THEN [u EXCEPT !.outcome = "alert: content too long"]
    ELSE IF ~fhevmInstance THEN [u EXCEPT !.outcome = "alert: not ready"]
    ELSE [ref |-> TRUE,
          calls |-> Append(u.calls, <<Trim(title), Trim(content)>>),
          timers |-> Append(u.timers, RESET_DELAY),
          outcome |-> "called"]

Chain == <<_dreams, _dreamsOf, _contentHashes, _lastCreationTime, acl, logs,
           blockTimestamp, result>>

\* the submit button is clicked (or Ctrl+Enter pressed)
handleCreateDream(title, content, isCreating, fhevmInstance) ==
    \E u \in {handleCreateDreamRun(ui, title, content, isCreating,
                                   fhevmInstance)} :
        /\ u.outcome = "called" => Len(ui.calls) < MaxCalls
        /\ ui' = u
        /\ UNCHANGED <<Chain, form>>

\* d milliseconds pass while a timer is pending
Elapse(d) ==
    /\ \E k \in 1..Len(ui.timers) : ui.timers[k] > 0
    /\ ui' = [ui EXCEPT !.timers = [k \in 1..Len(ui.timers) |->
                                        IF ui.timers[k] > d
                                        THEN ui.timers[k] - d ELSE 0] \o <<>>,
                        !.outcome = "elapsed"]
    /\ UNCHANGED <<Chain, form>>

\* the callback of a setTimeout whose delay has passed runs
ResetTimerFires(k) ==
    /\ k \in 1..Len(ui.timers)
    /\ ui.timers[k] = 0
    /\ ui' = [ui EXCEPT !.ref = FALSE,
                        !.timers = SubSeq(ui.timers, 1, k - 1)
                                    \o SubSeq(ui.timers, k + 1, Len(ui.timers)),
                        !.outcome = "reset"]
    /\ UNCHANGED <<Chain, form>>

(***************************************************************************)
(* The form's fields: every change of the title or of the content field    *)
(* stores sanitizeInput of what the field holds.                           *)
(***************************************************************************)
UpperCase == <<"A", "B", "C", "D", "E", "F", "G", "H", "I", "J", "K", "L", "M",
               "N", "O", "P", "Q", "R", "S", "T", "U", "V", "W", "X", "Y", "Z">>
LowerCase == <<"a", "b", "c", "d", "e", "f", "g", "h", "i", "j", "k", "l", "m",
               "n", "o", "p", "q", "r", "s", "t", "u", "v", "w", "x", "y", "z">>
Digits == {"0", "1", "2", "3", "4", "5", "6", "7", "8", "9"}

\* the letter a case-insensitive pattern compares
ToLower(c) ==
    IF \E i \in 1..Len(UpperCase) : UpperCase[i] = c
    THEN LowerCase[CHOOSE i \in 1..Len(UpperCase) : UpperCase[i] = c]
    ELSE c

\* the class \w of a pattern: letters, digits and the underscore
IsWordChar(c) ==
    \/ \E i \in 1..Len(LowerCase) : LowerCase[i] = ToLower(c)
    \/ c \in Digits
    \/ c = "_"

SCHEME == <<"j", "a", "v", "a", "s", "c", "r", "i", "p", "t", ":">>

\* .replace(/[<>]/g, ''): every '<' and every '>' goes
IsAngle(c) == c \in {"<", ">"}
RemoveAngles(input) == SelectSeq(input, LAMBDA c : ~IsAngle(c))

\* the pattern /javascript:/i matches at the head of input
SchemeAtHead(input) ==
    /\ Len(input) >= Len(SCHEME)
    /\ \A j \in 1..Len(SCHEME) : ToLower(input[j]) = SCHEME[j]

\* .replace(/javascript:/gi, ''): one pass from the left, the search
\* resuming after each match
RECURSIVE RemoveScheme(_)
RemoveScheme(input) ==
    IF input = <<>> THEN <<>>
    ELSE IF SchemeAtHead(input)
    THEN RemoveScheme(SubSeq(input, Len(SCHEME) + 1, Len(input)))
    ELSE <<Head(input)>> \o RemoveScheme(Tail(input))

\* the number of characters of class \w from position k of input on
RECURSIVE WordRun(_, _)
WordRun(input, k) ==
    IF k > Len(input) \/ ~IsWordChar(input[k]) THEN 0
    ELSE 1 + WordRun(input, k + 1)

\* the length of the match of /on\w+=/i at the head of input, 0 if none:
\* \w+ is greedy and '=' is not of class \w, so the match is "on", the
\* whole run of word characters, and the '=' that follows it
HandlerAtHead(input) ==
    IF /\ Len(input) >= 4
       /\ ToLower(input[1]) = "o"
       /\ ToLower(input[2]) = "n"
       /\ WordRun(input, 3) >= 1
       /\ 3 + WordRun(input, 3) <= Len(input)
       /\ input[3 + WordRun(input, 3)] = "="
    THEN 3 + WordRun(input, 3)
    ELSE 0

\* .replace(/on\w+=/gi, ''): one pass from the left, the search resuming
\* after each match
RECURSIVE RemoveHandlers(_)
RemoveHandlers(input) ==
    IF input = <<>> THEN <<>>
    ELSE IF HandlerAtHead(input) > 0
    THEN RemoveHandlers(SubSeq(input, HandlerAtHead(input) + 1, Len(input)))
    ELSE <<Head(input)>> \o RemoveHandlers(Tail(input))

\* sanitizeInput: the three replacements in the order written, then trim
sanitizeInput(input) == Trim(RemoveHandlers(RemoveScheme(RemoveAngles(input))))

\* what a user types or pastes into a field
TypedValues ==
    {<<>>,
     <<" ", "a", " ">>,
     <<"<", "b", ">", "h", "i", "<", "/", "b", ">">>,
     <<"J", "a", "v", "a", "S", "c", "r", "i", "p", "t", ":", "x">>,
     <<"o", "n", "C", "l", "i", "c", "k", "=", "a">>,
     <<"o", "n", "=">>,
     <<"j", "a", "v", "a", "<", "s", "c", "r", "i", "p", "t", ":">>,
     <<"o", "n", "<", "x", "=">>,
     <<"j", "a", "v", "a", "j", "a", "v", "a", "s", "c", "r", "i", "p", "t", ":", "s", "c", "r", "i", "p", "t", ":">>,
     <<"o", "o", "n", "x", "=", "n", "x", "=">>,
     <<"j", "a", "v", "a", "o", "n", "x", "=", "s", "c", "r", "i", "p", "t", ":">>}

\* useState("") of title and of content
FormEmpty == [title |-> <<>>, content |-> <<>>]

\* onChange of the title field
onChangeTitle(value) ==
    /\ form' = [form EXCEPT !.title = sanitizeInput(value)]
    /\ UNCHANGED <<Chain, ui>>

\* onChange of the content field
onChangeContent(value) ==
    /\ form' = [form EXCEPT !.content = sanitizeInput(value)]
    /\ UNCHANGED <<Chain, ui>>

Init ==
    /\ _dreams = <<>>
    /\ _dreamsOf = [u \in Users |-> <<>>]
    /\ _contentHashes = {}
    /\ _lastCreationTime = [u \in Users |-> 0]
    /\ acl = [h \in Handles |-> {}]
    /\ logs = <<>>
    /\ blockTimestamp \in Times
    /\ result = Ok("constructor", NoValue)
    /\ ui = PageMounted
    /\ form = FormEmpty

\* a later block is mined
NextBlock(t) ==
    /\ t > blockTimestamp
    /\ blockTimestamp' = t
    /\ UNCHANGED <<_dreams, _dreamsOf, _contentHashes, _lastCreationTime, acl,
                   logs, result, ui, form>>

\* creations with every kind of input, and the clock
Next ==
    \/ \E t \in Times : NextBlock(t)
    \/ \E sender \in Users, s \in Submissions :
            createDream(sender, s.title, s.encContent, s.inputProof)

Spec == Init /\ [][Next]_vars

\* creations with well-formed input, the clock, and the lookups
NextCalls ==
    \/ \E t \in Times : NextBlock(t)
    \/ \E sender \in Users, s \in CallSubmissions :
            createDream(sender, s.title, s.encContent, s.inputProof)
    \/ \E user \in Users : CallGetDreamCount(user)
    \/ \E user \in Users : CallGetDreamIds(user)
    \/ \E id \in Ids : CallGetDreamMeta(id)
    \/ \E id \in Ids : CallDreamExists(id)
    \/ \E id \in Ids : CallGetDreamContentLength(id)
    \/ CallGetTotalDreamCount
    \/ \E sender \in Users, id \in Ids, index \in Indexes :
            CallGetDreamContentByte(sender, id, index)

SpecCalls == Init /\ [][NextCalls]_vars

\* the contract called directly with blank and padded titles
NextTitles ==
    \/ \E t \in Times : NextBlock(t)
    \/ \E sender \in Users : \E s \in TitleSubmissions :
            createDream(sender, s.title, s.encContent, s.inputProof)

SpecTitles == Init /\ [][NextTitles]_vars

\* creations and the analytics functions
NextRecords ==
    \/ \E t \in Times : NextBlock(t)
    \/ \E sender \in Users : \E s \in RecordSubmissions :
            createDream(sender, s.title, s.encContent, s.inputProof)
    \/ \E sender \in Users : \E id \in Ids : recordContentAccess(sender, id)
    \/ \E sender \in Users : \E id \in Ids : recordDecryption(sender, id)

SpecRecords == Init /\ [][NextRecords]_vars

\* every external function of the contract
NextAll ==
    \/ \E t \in Times : NextBlock(t)
    \/ \E sender \in Users : \E s \in RecordSubmissions :
            createDream(sender, s.title, s.encContent, s.inputProof)
    \/ \E user \in Users : CallGetDreamCount(user)
    \/ \E user \in Users : CallGetDreamIds(user)
    \/ \E id \in Ids : CallGetDreamMeta(id)
    \/ \E id \in Ids : CallDreamExists(id)
    \/ \E id \in Ids : CallGetDreamContentLength(id)
    \/ CallGetTotalDreamCount
    \/ \E sender \in Users, id \in Ids, index \in Indexes :
            CallGetDreamContentByte(sender, id, index)
    \/ \E sender \in Users : \E id \in Ids : recordContentAccess(sender, id)
    \/ \E sender \in Users : \E id \in Ids : recordDecryption(sender, id)

SpecAll == Init /\ [][NextAll]_vars

\* creation attempts, failing ones of every kind among them
NextRetry ==
    \/ \E t \in Times : NextBlock(t)
    \/ \E sender \in Users : \E s \in RetrySubmissions :
            createDream(sender, s.title, s.encContent, s.inputProof)

SpecRetry == Init /\ [][NextRetry]_vars

\* the page: clicks on submit, time passing, timers firing
NextUI ==
    \/ \E title \in FormTitles : \E content \in FormContents :
       \E isCreating \in BOOLEAN : \E fhevmInstance \in BOOLEAN :
            handleCreateDream(title, content, isCreating, fhevmInstance)
    \/ \E d \in Delays : Elapse(d)
    \/ \E k \in 1..MaxCalls : ResetTimerFires(k)

SpecUI == Init /\ [][NextUI]_vars

\* the page with the form filled at the limits of the validation
NextForm ==
    \/ \E title \in BoundaryTitles : \E content \in BoundaryContents :
       \E isCreating \in BOOLEAN : \E fhevmInstance \in BOOLEAN :
            handleCreateDream(title, content, isCreating, fhevmInstance)
    \/ \E d \in Delays : Elapse(d)
    \/ \E k \in 1..MaxCalls : ResetTimerFires(k)

SpecForm == Init /\ [][NextForm]_vars

\* the form: the user edits the title and the content field
NextFields ==
    \/ \E value \in TypedValues : onChangeTitle(value)
    \/ \E value \in TypedValues : onChangeContent(value)

SpecFields == Init /\ [][NextFields]_vars

(***************************************************************************)
(* Properties                                                              *)
(***************************************************************************)
\* the record with this id exists
Exists(id) == InRange(id) /\ Len(DreamAt(id).encContent) > 0

\* C1: for every existing record, every caller other than its owner and every
\* index, in range or not, getDreamContentByte fails with AccessDenied and
\* returns no ciphertext unit, in every reachable state.
C1_NonOwnerDenied ==
    \A id \in Ids : \A sender \in Users : \A index \in Indexes :
        (Exists(id) /\ sender # DreamAt(id).owner) =>
            /\ ErrKind(getDreamContentByte(sender, id, index).err) = "AccessDenied"
            /\ getDreamContentByte(sender, id, index).value = NoValue

\* a caller has just been denied a unit of a stored two-unit record
C1_Witness ==
    /\ result.op = "getDreamContentByte"
    /\ ErrKind(result.err) = "AccessDenied"
    /\ \E id \in Ids : Exists(id) /\ Len(DreamAt(id).encContent) = 2

\* the units the owner can read from record id, by position, and its length
UnitsRead(id) ==
    [index \in Indexes |-> getDreamContentByte(DreamAt(id).owner, id, index)]
Readings(id) == <<UnitsRead(id), getDreamContentLength(id)>>

\* C2: a successful createDream(title, u, proof) yields a record whose unit at
\* position i, read by the owner, is the unit imported from u[i] for 0 <= i < n,
\* whose reads at i >= n fail with IndexOutOfRange and whose length reads n;
\* and no later step changes what these reads return (they depend on _dreams
\* only, so the steps that leave _dreams alone need no look).
C2_Step ==
    /\ _dreams' # _dreams =>
            \A id \in Ids : Exists(id) => Readings(id)' = Readings(id)
    /\ (result'.op = "createDream" /\ result'.err = ""
            /\ Len(_dreams') = Len(_dreams) + 1) =>
        \A sender \in Users, s \in CallSubmissions :
            createDream(sender, s.title, s.encContent, s.inputProof) =>
                \E id \in Ids :
                    /\ id = result'.value
                    /\ getDreamContentLength(id)' =
                            Ok("getDreamContentLength", Len(s.encContent))
                    /\ \A index \in Indexes :
                        getDreamContentByte(sender, id, index)' =
                            IF index < Len(s.encContent)
                            THEN Ok("getDreamContentByte",
                                    fromExternal(s.encContent[index + 1], sender))
                            ELSE Revert("getDreamContentByte", "Index out of bounds")
C2_OwnerReadsStoredUnits == [][C2_Step]_vars

\* the owner has just read the second unit of a record whose two units differ
C2_Witness ==
    /\ result.op = "getDreamContentByte"
    /\ result.err = ""
    /\ \E id \in Ids :
        /\ Exists(id)
        /\ Len(DreamAt(id).encContent) = 2
        /\ DreamAt(id).encContent[1] # DreamAt(id).encContent[2]
        /\ result.value = DreamAt(id).encContent[2]

(***************************************************************************)
(* Vocabulary of the creation properties, stated on the stored records and *)
(* the inputs only.                                                        *)
(***************************************************************************)
AllSubmissions == Submissions \cup CallSubmissions

\* title and content within the documented limits
ValidInput(title, encContent) ==
    /\ Len(encContent) >= 1 /\ Len(encContent) <= MAX_CONTENT
    /\ Len(title) >= 1 /\ Len(title) <= MAX_TITLE

\* what a createDream transaction sent now would do
TxNow(sender, s) ==
    CreateDreamTx(Storage, sender, blockTimestamp, s.title, s.encContent,
                  s.inputProof)

\* the (owner, content length, title) triples of the accepted creations
AcceptedTriples ==
    {<<_dreams[k].owner, Len(_dreams[k].encContent), _dreams[k].title>> :
        k \in 1..Len(_dreams)}

\* the positions of the records of an owner, and the time of the latest one
RecordsOf(owner) == {k \in 1..Len(_dreams) : _dreams[k].owner = owner}
HasRecord(owner) == RecordsOf(owner) # {}
LatestOf(owner) ==
    _dreams[CHOOSE k \in RecordsOf(owner) : \A j \in RecordsOf(owner) : j <= k].createdAt

\* a proof that attests every unit of the content
Attests(inputProof, encContent) ==
    \A i \in 1..Len(encContent) : encContent[i] \in inputProof

\* the DreamCreated events of the log, in order
CreatedEvents == SelectSeq(logs, LAMBDA e : e.event = "DreamCreated")

C4_DuplicateAlwaysReported ==
    \A sender \in Users, s \in AllSubmissions :
        <<sender, Len(s.encContent), s.title>> \in AcceptedTriples =>
            ErrKind(TxNow(sender, s).err)
                = "DuplicateContent"

\* C4 as amended: a createDream whose (owner, content length, title) was
\* accepted before is never accepted, whatever its units and proof: it fails
\* with DuplicateContent once 3600 seconds have passed since the owner's latest
\* creation, and with RateLimited or DuplicateContent before that.
C4_TripleAcceptedOnce ==
    \A sender \in Users, s \in AllSubmissions :
        <<sender, Len(s.encContent), s.title>> \in AcceptedTriples =>
            LET kind == ErrKind(TxNow(sender, s).err)
            IN  /\ kind \in {"DuplicateContent", "RateLimited"}
                /\ blockTimestamp >= LatestOf(sender) + 3600
                        => kind = "DuplicateContent"

\* the only owner's triple was refused as a duplicate after the window passed
C4_Witness ==
    /\ Len(_dreams) = 1
    /\ _dreams[1].createdAt > 0
    /\ blockTimestamp >= _dreams[1].createdAt + 3600
    /\ result.op = "createDream"
    /\ ErrKind(result.err) = "DuplicateContent"

\* C5: a successful createDream returns getTotalDreamCount() as it was before
\* the call and adds one record, a failed one adds none; so the ids assigned
\* (in the DreamCreated events and in the owners' lists) are 0, 1, ..., count-1,
\* each once.
C5_DenseIds ==
    /\ Len(CreatedEvents) = getTotalDreamCount.value
    /\ \A k \in 1..Len(CreatedEvents) : CreatedEvents[k].id = k - 1
    /\ UNION {{_dreamsOf[u][k] : k \in 1..Len(_dreamsOf[u])} : u \in Users}
            = 0..(getTotalDreamCount.value - 1)
    /\ (result.op = "createDream" /\ result.err = "") =>
            result.value = getTotalDreamCount.value - 1
    /\ \A sender \in Users, s \in AllSubmissions :
            LET tx == TxNow(sender, s)
            IN  IF tx.err = ""
                THEN /\ tx.id = getTotalDreamCount.value
                     /\ Len(tx.st.dreams) = getTotalDreamCount.value + 1
                ELSE Len(tx.st.dreams) = getTotalDreamCount.value

\* a second creation has just returned id 1
C5_Witness ==
    /\ result = Ok("createDream", 1)
    /\ Len(_dreams) = 2
    /\ Len(CreatedEvents) = 2

\* C6 as claimed: every createDream with a title of 1..200 bytes, 1..10000
\* units and a triple not accepted before succeeds and returns the count.
C6_FreshValidSucceeds ==
    \A sender \in Users, s \in AllSubmissions :
        (/\ ValidInput(s.title, s.encContent)
         /\ <<sender, Len(s.encContent), s.title>> \notin AcceptedTriples) =>
            /\ TxNow(sender, s).err = ""
            /\ TxNow(sender, s).id = Len(_dreams)

\* C6 as amended: such a createDream succeeds and returns the count when, in
\* addition, the owner has no record or the owner's latest one is at least 3600
\* seconds old, and the proof attests every unit.
C6_FreshValidAdmittedSucceeds ==
    \A sender \in Users, s \in AllSubmissions :
        (/\ ValidInput(s.title, s.encContent)
         /\ <<sender, Len(s.encContent), s.title>> \notin AcceptedTriples
         /\ HasRecord(sender) => blockTimestamp >= LatestOf(sender) + 3600
         /\ Attests(s.inputProof, s.encContent)) =>
            /\ TxNow(sender, s).err = ""
            /\ TxNow(sender, s).id = Len(_dreams)

\* an owner's second creation, exactly 3600 seconds after the first, with a
\* 200-byte title, has just succeeded
C6_Witness ==
    /\ result = Ok("createDream", 1)
    /\ Len(_dreams) = 2
    /\ _dreams[1].owner = _dreams[2].owner
    /\ _dreams[2].createdAt = _dreams[1].createdAt + 3600
    /\ Len(_dreams[2].title) = 200

\* C7: a createDream that the verifier rejects leaves the fingerprint set, the
\* rate-limit timestamps, the records, the owner index, the access list and the
\* event log as they were, and the same submission with a proof attesting its
\* units, at the same clock value, then succeeds.
C7_RejectedProofCommitsNothing ==
    \A sender \in Users, s \in AllSubmissions :
        LET tx == TxNow(sender, s)
        IN  ErrKind(tx.err) = "ProofInvalid" =>
                /\ tx.st = Storage
                /\ CreateDreamTx(tx.st, sender, blockTimestamp, s.title,
                                 s.encContent,
                                 {s.encContent[i] : i \in 1..Len(s.encContent)}
                                ).err = ""

\* a creation has just been rejected by the verifier while a record is stored
C7_Witness ==
    /\ result.op = "createDream"
    /\ ErrKind(result.err) = "ProofInvalid"
    /\ Len(_dreams) >= 1

C9_InvalidInputRejected ==
    \A sender \in Users, s \in AllSubmissions :
        (\/ Len(s.encContent) = 0 \/ Len(s.encContent) > 10000
         \/ Len(s.title) = 0 \/ Len(s.title) > 200) =>
            /\ ErrKind(TxNow(sender, s).err)
                    = "ValidationError"
            /\ TxNow(sender, s).st = Storage

\* an over-long title has just been rejected while a record is stored
C9_Witness ==
    /\ result = Revert("createDream", "Title too long")
    /\ Len(_dreams) >= 1

\* the ids below n of the records of an owner, in increasing order
RECURSIVE OwnedIds(_, _)
OwnedIds(owner, n) ==
    IF n = 0 THEN <<>>
    ELSE IF DreamAt(n - 1).owner = owner
    THEN Append(OwnedIds(owner, n - 1), n - 1)
    ELSE OwnedIds(owner, n - 1)

\* the ids of the DreamCreated events of an owner, in log order
RECURSIVE CreatedIdsOf(_, _)
CreatedIdsOf(owner, n) ==
    IF n = 0 THEN <<>>
    ELSE IF CreatedEvents[n].owner = owner
    THEN Append(CreatedIdsOf(owner, n - 1), CreatedEvents[n].id)
    ELSE CreatedIdsOf(owner, n - 1)

\* C10: getDreamIds(owner) is the increasing sequence of the ids of the records
\* whose owner it is, which is the sequence of ids of the owner's DreamCreated
\* events; getDreamCount(owner) is its length; getTotalDreamCount() is the
\* number of successful creations.
C10_OwnerIndex ==
    /\ \A owner \in Users :
        /\ getDreamIds(owner).value = OwnedIds(owner, Len(_dreams))
        /\ getDreamIds(owner).value = CreatedIdsOf(owner, Len(CreatedEvents))
        /\ getDreamCount(owner).value = Len(getDreamIds(owner).value)
    /\ getTotalDreamCount.value = Len(CreatedEvents)
    /\ getTotalDreamCount.value = Len(_dreams)

\* the list of the owner of the second record only has just been read
C10_Witness ==
    /\ result = Ok("getDreamIds", <<1>>)
    /\ Len(_dreams) = 2
    /\ _dreams[1].owner # _dreams[2].owner

C12_ExistsAnswersEveryId ==
    \A id \in Ids :
        dreamExists(id) = Ok("dreamExists", id < getTotalDreamCount.value)

(***************************************************************************)
(* C13: for every id below the count getDreamMeta and                      *)
(* getDreamContentLength return what the record holds; for every id at or  *)
(* above the count they and getDreamContentByte, for every caller and      *)
(* index, fail with NotFound.                                              *)
(***************************************************************************)
C13_LookupsNotFoundAboveCount ==
    \A id \in Ids :
        IF id < getTotalDreamCount.value
        THEN /\ getDreamMeta(id)
                    = Ok("getDreamMeta", <<DreamAt(id).owner, DreamAt(id).title,
                                           DreamAt(id).createdAt>>)
             /\ getDreamContentLength(id)
                    = Ok("getDreamContentLength", Len(DreamAt(id).encContent))
        ELSE /\ ErrKind(getDreamMeta(id).err) = "NotFound"
             /\ ErrKind(getDreamContentLength(id).err) = "NotFound"
             /\ \A sender \in Users : \A index \in Indexes :
                    ErrKind(getDreamContentByte(sender, id, index).err) = "NotFound"

(***************************************************************************)
(* C14: createDream rejects with ValidationError every title that is empty *)
(* after trimming blanks, a title of blanks only included, and commits     *)
(* nothing for it.                                                         *)
(***************************************************************************)
C14_BlankTitleRejected ==
    \A sender \in Users : \A s \in TitleSubmissions :
        LET tx == TxNow(sender, s)
        IN  Len(Trim(s.title)) = 0
                => /\ ErrKind(tx.err) = "ValidationError"
                   /\ tx.st = Storage

(***************************************************************************)
(* C15: recordDecryption fails with NotFound when the record does not      *)
(* exist, with AccessDenied when it exists and the caller is not its       *)
(* owner, and otherwise succeeds and emits exactly one DreamDecrypted      *)
(* event with the id, the caller and the current timestamp.                *)
(***************************************************************************)
C15_RecordDecryptionOutcomes ==
    \A sender \in Users : \A id \in Ids :
        LET tx == recordDecryptionTx(sender, id)
        IN  IF ~(id < getTotalDreamCount.value)
            THEN ErrKind(tx.err) = "NotFound" /\ tx.logs = logs
            ELSE IF DreamAt(id).owner # sender
            THEN ErrKind(tx.err) = "AccessDenied" /\ tx.logs = logs
            ELSE /\ tx.err = ""
                 /\ tx.logs = Append(logs, DreamDecrypted(id, sender,
                                                          blockTimestamp))

(***************************************************************************)
(* C16: recordContentAccess by any caller on an existing record succeeds   *)
(* and emits an accessed event with the record id and the accessor; on an  *)
(* id that does not exist it fails with NotFound and emits nothing.        *)
(***************************************************************************)
C16_AccessEventNamesAccessor ==
    \A sender \in Users : \A id \in Ids :
        LET tx == recordContentAccessTx(sender, id)
        IN  IF id < getTotalDreamCount.value
            THEN /\ tx.err = ""
                 /\ tx.logs = Append(logs, DreamAccessed(id, sender))
            ELSE ErrKind(tx.err) = "NotFound" /\ tx.logs = logs

(***************************************************************************)
(* C17: the DreamCreated events are one per stored record, in id order:    *)
(* there are getTotalDreamCount() of them, the k-th carries id k-1 and the *)
(* owner, title and createdAt of the record stored under that id; so a     *)
(* successful createDream emitted exactly one, a failed one none.          *)
(***************************************************************************)
C17_OneCreatedEventPerRecord ==
    /\ Len(CreatedEvents) = getTotalDreamCount.value
    /\ \A k \in 1..Len(CreatedEvents) :
            /\ k <= Len(_dreams)
            /\ CreatedEvents[k].id = k - 1
            /\ CreatedEvents[k].owner = _dreams[k].owner
            /\ CreatedEvents[k].title = _dreams[k].title
            /\ CreatedEvents[k].createdAt = _dreams[k].createdAt
            /\ DOMAIN CreatedEvents[k]
                    = {"event", "id", "owner", "title", "createdAt"}
    /\ (result.op = "createDream" /\ result.err = "") =>
            /\ Len(CreatedEvents) >= 1
            /\ CreatedEvents[Len(CreatedEvents)].id = result.value
            /\ CreatedEvents[Len(CreatedEvents)].createdAt <= blockTimestamp

\* a second creation, by another owner at a later time, has just succeeded
C17_Witness ==
    /\ result = Ok("createDream", 1)
    /\ Len(CreatedEvents) = 2
    /\ CreatedEvents[1].owner # CreatedEvents[2].owner
    /\ CreatedEvents[2].createdAt > CreatedEvents[1].createdAt
    /\ CreatedEvents[1].createdAt > 0

\* the euint8 units of the stored records, and the owners of the records a
\* unit is stored in
StoredUnits ==
    UNION {{_dreams[k].encContent[i] : i \in 1..Len(_dreams[k].encContent)} :
            k \in 1..Len(_dreams)}
OwnersOfUnit(h) ==
    {_dreams[k].owner : k \in {j \in 1..Len(_dreams) :
        \E i \in 1..Len(_dreams[j].encContent) : _dreams[j].encContent[i] = h}}

(***************************************************************************)
(* C18: the access list of every unit of a stored record is the record's   *)
(* owner and the contract, nobody else; a unit of no stored record has an  *)
(* empty access list, so grants are made by successful creations only and  *)
(* never to a caller who is not the owner.                                 *)
(***************************************************************************)
C18_AccessListOwnerAndStore ==
    /\ \A k \in 1..Len(_dreams) : \A i \in 1..Len(_dreams[k].encContent) :
            acl[_dreams[k].encContent[i]] = {_dreams[k].owner, This}
    /\ \A h \in Handles :
            /\ h \notin StoredUnits => acl[h] = {}
            /\ acl[h] \subseteq OwnersOfUnit(h) \cup {This}

\* two owners hold a record each, both stored the unit they imported from
\* external handle 1, and an attempt that had imported one unit before the
\* verifier rejected the next has just failed, leaving a unit nobody is
\* allowed on
C18_Witness ==
    /\ Len(_dreams) = 2
    /\ _dreams[1].owner # _dreams[2].owner
    /\ \A u \in Users : acl[fromExternal(1, u)] = {u, This}
    /\ result.op = "createDream"
    /\ ErrKind(result.err) = "ProofInvalid"
    /\ \E h \in Handles : acl[h] = {}

OwnRecords(owner) == SelectSeq(_dreams, LAMBDA d : d.owner = owner)
AloneStorage(owner) ==
    LET own == OwnRecords(owner)
    IN  [dreams |-> own,
         dreamsOf |-> [u \in Users |->
                        IF u = owner THEN [k \in 1..Len(own) |-> k - 1] \o <<>>
                        ELSE <<>>],
         contentHashes |-> {contentHashOf(owner, Len(own[k].encContent),
                                          own[k].title) : k \in 1..Len(own)},
         lastCreationTime |-> [u \in Users |->
                        IF u = owner THEN _lastCreationTime[u] ELSE 0],
         acl |-> [h \in Handles |->
                        IF \E k \in 1..Len(own) :
                              \E i \in 1..Len(own[k].encContent) :
                                  own[k].encContent[i] = h
                        THEN acl[h] ELSE {}],
         logs |-> [k \in 1..Len(own) |->
                        DreamCreated(k - 1, owner, own[k].title,
                                     own[k].createdAt)] \o <<>>]

(***************************************************************************)
(* C20: whether a createDream of an owner is accepted, and the kind of     *)
(* error when it is not, are what they would be had no other owner ever    *)
(* created anything; only the id it returns counts the others' records.    *)
(***************************************************************************)
C20_OwnersDoNotConflict ==
    \A sender \in Users : \A s \in AllSubmissions :
        LET tx == TxNow(sender, s)
            alone == CreateDreamTx(AloneStorage(sender), sender, blockTimestamp,
                                   s.title, s.encContent, s.inputProof)
        IN  /\ tx.err = alone.err
            /\ tx.err = "" =>
                    tx.id = alone.id + Len(_dreams) - Len(OwnRecords(sender))

\* an owner's creation has just succeeded with the title, the content length
\* and the clock value of the record another owner created before it
C20_Witness ==
    /\ result = Ok("createDream", 1)
    /\ Len(_dreams) = 2
    /\ _dreams[1].owner # _dreams[2].owner
    /\ _dreams[1].title = _dreams[2].title
    /\ Len(_dreams[1].encContent) = Len(_dreams[2].encContent)
    /\ _dreams[1].createdAt = _dreams[2].createdAt
    /\ _dreams[2].createdAt = blockTimestamp
    /\ blockTimestamp > 0

(***************************************************************************)
(* C21: every stored record has 1..10000 content units and a title of      *)
(* 1..200 bytes, so every id below getTotalDreamCount() denotes a record   *)
(* with content: the lookups find it and dreamExists answers true.         *)
(***************************************************************************)
C21_StoredRecordsWithinLimits ==
    /\ \A k \in 1..Len(_dreams) :
        /\ Len(_dreams[k].encContent) >= 1
        /\ Len(_dreams[k].encContent) <= 10000
        /\ Len(_dreams[k].title) >= 1
        /\ Len(_dreams[k].title) <= 200
    /\ \A id \in Ids : id < getTotalDreamCount.value =>
        /\ dreamExists(id) = Ok("dreamExists", TRUE)
        /\ getDreamMeta(id).err = ""
        /\ getDreamContentLength(id).err = ""
        /\ getDreamContentLength(id).value >= 1

\* a record with a 200-byte title is stored and an attempt with no content
\* has just been rejected
C21_Witness ==
    /\ result = Revert("createDream", "Empty content")
    /\ \E k \in 1..Len(_dreams) : Len(_dreams[k].title) = 200
    /\ \E k \in 1..Len(_dreams) : Len(_dreams[k].encContent) = 2

ExpectedKind(sender, s) ==
    IF ~ValidInput(s.title, s.encContent) THEN "ValidationError"
    ELSE IF HasRecord(sender) /\ blockTimestamp < LatestOf(sender) + 3600
    THEN "RateLimited"
    ELSE IF <<sender, Len(s.encContent), s.title>> \in AcceptedTriples
    THEN "DuplicateContent"
    ELSE IF ~Attests(s.inputProof, s.encContent) THEN "ProofInvalid"
    ELSE ""

C25_TimestampOfLatestRecord ==
    /\ \A owner \in Users :
        LET ids == getDreamIds(owner).value
        IN  IF Len(ids) = 0 THEN _lastCreationTime[owner] = 0
            ELSE _lastCreationTime[owner] = DreamAt(ids[Len(ids)]).createdAt
    /\ \A sender \in Users : \A s \in AllSubmissions :
        LET tx == TxNow(sender, s)
        IN  \A u \in Users :
                (tx.err # "" \/ u # sender) =>
                    tx.st.lastCreationTime[u] = _lastCreationTime[u]

\* an owner holds two records, the other none, and an attempt has just failed
C25_Witness ==
    /\ result.op = "createDream"
    /\ result.err # ""
    /\ Len(_dreams) = 2
    /\ _dreams[1].owner = _dreams[2].owner
    /\ _dreams[2].createdAt > _dreams[1].createdAt
    /\ _dreams[1].createdAt > 0
    /\ _lastCreationTime[_dreams[1].owner] = _dreams[2].createdAt
    /\ \E u \in Users : _lastCreationTime[u] = 0

(***************************************************************************)
(* C26: the set of marked hashes is exactly the set of hashes of (owner,   *)
(* content length, title) of the stored records: none is ever removed,     *)
(* none is present without its record, the stored records have pairwise    *)
(* distinct triples, and there are getTotalDreamCount() of them.           *)
(***************************************************************************)
C26_HashesOfStoredRecords ==
    /\ _contentHashes
            = {contentHashOf(_dreams[k].owner, Len(_dreams[k].encContent),
                             _dreams[k].title) : k \in 1..Len(_dreams)}
    /\ \A i \in 1..Len(_dreams) : \A j \in 1..Len(_dreams) :
            i # j => <<_dreams[i].owner, Len(_dreams[i].encContent), _dreams[i].title>>
                        # <<_dreams[j].owner, Len(_dreams[j].encContent),
                            _dreams[j].title>>
    /\ Cardinality(_contentHashes) = getTotalDreamCount.value

\* two records are stored and an attempt that had marked its hash before the
\* verifier rejected it has just failed
C26_Witness ==
    /\ result = Revert("createDream", "Invalid input proof")
    /\ Len(_dreams) = 2
    /\ Cardinality(_contentHashes) = 2

(***************************************************************************)
(* C27: the store is append-only: in every step the records stored before  *)
(* keep their owner, title, createdAt and content units, and the record    *)
(* table and every owner's id list grow, if at all, at the end.            *)
(***************************************************************************)
C27_Step ==
    /\ Len(_dreams') >= Len(_dreams)
    /\ \A k \in 1..Len(_dreams) : _dreams'[k] = _dreams[k]
    /\ \A u \in Users :
        /\ Len(_dreamsOf'[u]) >= Len(_dreamsOf[u])
        /\ \A k \in 1..Len(_dreamsOf[u]) : _dreamsOf'[u][k] = _dreamsOf[u][k]

C27_AppendOnly == [][C27_Step]_vars

\* an owner's second record has just been added behind the first
C27_Witness ==
    /\ result = Ok("createDream", 1)
    /\ Len(_dreams) = 2
    /\ _dreams[1].owner = _dreams[2].owner
    /\ _dreamsOf[_dreams[1].owner] = <<0, 1>>

(***************************************************************************)
(* C28: the record table, the owner index, the rate-limit timestamps and   *)
(* the hash set change only in a step that is a successful createDream:    *)
(* every lookup, recordContentAccess and recordDecryption, successful or   *)
(* failed, and every failed createDream leaves the four as they were.      *)
(***************************************************************************)
C28_Step ==
    <<_dreams, _dreamsOf, _lastCreationTime, _contentHashes>>'
            # <<_dreams, _dreamsOf, _lastCreationTime, _contentHashes>>
        => /\ result'.op = "createDream"
           /\ result'.err = ""
           /\ Len(_dreams') = Len(_dreams) + 1

C28_OnlyCreationWrites == [][C28_Step]_vars

\* a record is stored, the log holds an event of an analytics function, and
\* a lookup has just been answered
C28_Witness ==
    /\ Len(_dreams) >= 1
    /\ Len(AnalyticsEvents) >= 1
    /\ result.op = "getDreamMeta"
    /\ result.err = ""

\* a submission the documented rules admit now from an owner who created
\* before: valid title and content, a proof for every unit, a triple not yet
\* accepted, and 3600 seconds or more since the owner's latest creation
Admissible(sender, s) ==
    /\ HasRecord(sender)
    /\ blockTimestamp >= LatestOf(sender) + 3600
    /\ ValidInput(s.title, s.encContent)
    /\ Attests(s.inputProof, s.encContent)
    /\ <<sender, Len(s.encContent), s.title>> \notin AcceptedTriples

(***************************************************************************)
(* C29: failed attempts do not postpone an owner's next creation: 3600     *)
(* seconds or more after the owner's latest accepted creation, an          *)
(* admissible createDream succeeds, also right after an attempt of that    *)
(* owner that failed (rate-limited, duplicate, invalid input or proof).    *)
(***************************************************************************)
C29_FailedAttemptsDoNotPostpone ==
    \A sender \in Users :
        (HasRecord(sender) /\ blockTimestamp >= LatestOf(sender) + 3600) =>
            \A s2 \in {s \in RetrySubmissions : Admissible(sender, s)} :
                /\ TxNow(sender, s2).err = ""
                /\ \A s1 \in RetrySubmissions :
                    LET tx1 == TxNow(sender, s1)
                    IN  tx1.err # "" =>
                            CreateDreamTx(tx1.st, sender, blockTimestamp, s2.title,
                                          s2.encContent, s2.inputProof).err = ""

\* 3600 seconds or more after an owner's creation an attempt has just been
\* rejected by the verifier, and the owner has an admissible submission
C29_Witness ==
    /\ result = Revert("createDream", "Invalid input proof")
    /\ \E sender \in Users :
        /\ HasRecord(sender)
        /\ LatestOf(sender) > 0
        /\ \E s \in RetrySubmissions :
            /\ Admissible(sender, s)
            /\ s.inputProof = {1, 2}
            /\ ErrKind(TxNow(sender, [s EXCEPT !.inputProof = {1}]).err)
                    = "ProofInvalid"

\* an invocation of the handler with input that passes the validation and
\* the instance ready
ValidForm(title, content) ==
    /\ Len(Trim(title)) >= 1 /\ Len(Trim(title)) <= 200
    /\ Len(Trim(content)) >= 1 /\ Len(Trim(content)) <= 10000

(***************************************************************************)
(* C30: createDream is called only while no invocation's reset timer is    *)
(* pending: the call sets the guard and one 5000 ms timer, the guard stays *)
(* set until that timer has run down and fires, only a calling invocation  *)
(* sets the guard, and with the guard clear an invocation with valid input *)
(* and a ready instance calls createDream exactly when isCreating is false.*)
(***************************************************************************)
C30_Step ==
    /\ ui.ref <=> ui.timers # <<>>
    /\ ui'.calls # ui.calls =>
            /\ ~ui.ref
            /\ Len(ui'.calls) = Len(ui.calls) + 1
            /\ ui'.ref
            /\ ui'.timers = <<5000>>
    /\ (ui'.ref /\ ~ui.ref) => ui'.calls # ui.calls
    /\ (ui.ref /\ ~ui'.ref) => (ui.timers = <<0>> /\ ui'.timers = <<>>)
    /\ ~ui.ref =>
            \A title \in FormTitles : \A content \in FormContents :
            \A isCreating \in BOOLEAN :
                ValidForm(title, content) =>
                    (handleCreateDreamRun(ui, title, content, isCreating,
                                          TRUE).calls # ui.calls
                        <=> ~isCreating)

C30_GuardHeldUntilTimer == [][C30_Step]_vars

\* after a first call and the firing of its timer a second call was made,
\* and a click one millisecond before its timer is due has just been ignored
C30_Witness ==
    /\ Len(ui.calls) = 2
    /\ ui.ref
    /\ ui.timers = <<1>>
    /\ ui.outcome = "ignored: already processing"

(***************************************************************************)
(* C31: an invocation of handleCreateDream calls createDream only when the *)
(* trimmed title has 1..200 characters, the trimmed content 1..10000 and   *)
(* the FHEVM instance is ready, and then with the trimmed title and the    *)
(* trimmed content as arguments; on any other input it makes no call and   *)
(* leaves the guard and the timers as they were.  Checked in every state   *)
(* of the page for every form value, isCreating and instance state.        *)
(***************************************************************************)
C31_CallsOnlyWithValidTrimmedInput ==
    \A title \in BoundaryTitles : \A content \in BoundaryContents :
    \A isCreating \in BOOLEAN : \A fhevmInstance \in BOOLEAN :
        \E u \in {handleCreateDreamRun(ui, title, content, isCreating,
                                       fhevmInstance)} :
        \E ok \in {/\ 1 <= Len(Trim(title)) /\ Len(Trim(title)) <= 200
                   /\ 1 <= Len(Trim(content)) /\ Len(Trim(content)) <= 10000
                   /\ fhevmInstance} :
            /\ u.calls # ui.calls =>
                    /\ ok
                    /\ u.calls = Append(ui.calls,
                                        <<Trim(title), Trim(content)>>)
            /\ ~ok =>
                    /\ u.calls = ui.calls
                    /\ u.ref = ui.ref
                    /\ u.timers = ui.timers
            /\ \A k \in 1..Len(u.calls) :
                    /\ Len(u.calls[k][1]) \in 1..200
                    /\ Len(u.calls[k][2]) \in 1..10000
                    /\ ~IsBlank(u.calls[k][1][1])
                    /\ ~IsBlank(u.calls[k][1][Len(u.calls[k][1])])
                    /\ ~IsBlank(u.calls[k][2][1])
                    /\ ~IsBlank(u.calls[k][2][Len(u.calls[k][2])])

\* createDream was called with a title of 200 and a content of 10000
\* characters, its timer has fired, and a click on content of 10001
\* characters has just been refused with the guard left clear
C31_Witness ==
    /\ Len(ui.calls) = 1
    /\ Len(ui.calls[1][1]) = 200
    /\ Len(ui.calls[1][2]) = 10000
    /\ ui.outcome = "alert: content too long"
    /\ ~ui.ref
    /\ ui.timers = <<>>

\* a field value holds '<' or '>', a match of /javascript:/i, a match of
\* /on\w+=/i
HasAngle(value) == \E i \in 1..Len(value) : IsAngle(value[i])
HasScheme(value) ==
    \E i \in 1..Len(value) : SchemeAtHead(SubSeq(value, i, Len(value)))
HasHandler(value) ==
    \E i \in 1..Len(value) : HandlerAtHead(SubSeq(value, i, Len(value))) > 0

(***************************************************************************)
(* C32: what sanitizeInput returns, here the title and the content the     *)
(* form holds after any sequence of edits, has no '<' or '>', no           *)
(* 'javascript:' in any letter case and no 'on<word>=', and sanitizeInput  *)
(* leaves it as it is (sanitizeInput is idempotent).                       *)
(***************************************************************************)
C32_SanitizedIsCleanAndStable ==
    \A value \in {form.title, form.content} :
        /\ ~HasAngle(value)
        /\ ~HasScheme(value)
        /\ ~HasHandler(value)
        /\ sanitizeInput(value) = value

\* the part of C32 that the three replacements do establish: no '<' and no
\* '>' is left, and no blank at either end
C32_NoAnglesNoOuterBlanks ==
    \A value \in {form.title, form.content} :
        /\ ~HasAngle(value)
        /\ Trim(value) = value

====
